---------------------------- MODULE Spec2Model ----------------------------
(***************************************************************************)
(* Model of terraform-provider-publicip: the provider configuration        *)
(* (provider.Configure), the shared token bucket (golang.org/x/time/rate   *)
(* as the provider uses it) and the data source's Read.                    *)
(*                                                                         *)
(* Time is in milliseconds.  An optional value (types.String, a pointer)   *)
(* is a sequence of length 0 (null / nil) or 1.                            *)
(***************************************************************************)
EXTENDS Integers, Sequences, FiniteSets, TLC

VARIABLES
    wordBits,     \* width of Go's int on the build's platform (32 or 64)
    now,          \* wall clock, ms
    p,            \* the provider struct (provider.go:18-35)
    limiters,     \* the rate.Limiter objects allocated so far
    cfgCalls,     \* number of Configure calls made
    cfgErrors,    \* error summaries of the last Configure response
    ipProv,       \* the IpProvider struct and its last ConfigureResponse
    lookups       \* the Read calls, by lookup id

vars == <<wordBits, now, p, limiters, cfgCalls, cfgErrors, ipProv, lookups>>

-----------------------------------------------------------------------------
(* Bounds of the model *)

MaxConfigures == 1
MaxLookups == 2
MaxTime == 500
MaxRedirects == 1

-----------------------------------------------------------------------------
(* Optional values *)

Null == <<>>
Some(x) == <<x>>
IsNull(o) == Len(o) = 0
Value(o) == o[1]

-----------------------------------------------------------------------------
(* Provider configuration: provider.go *)

DefaultTimeout == "5s"
DefaultProviderURL == "https://ifconfig.co/"
DefaultRateLimitRate == "500ms"
DefaultRateLimitBurst == 1

\* An int64 is a record [hi, lo] standing for hi * 2^31 + lo with
\* 0 <= lo < 2^31, so that values beyond a 32-bit int can be written.
I64(n) == [hi |-> 0, lo |-> n]
I64MinusOne == [hi |-> -1, lo |-> 2147483647]
I64Pow31 == [hi |-> 1, lo |-> 0]

\* v > math.MaxInt: math.MaxInt is 2^31 - 1 where int has 32 bits; where it
\* has 64 bits it is the largest int64 and no int64 exceeds it.
GtMathMaxInt(v) == wordBits = 32 /\ v.hi > 0

\* v <= 0
I64LeqZero(v) == v.hi < 0 \/ (v.hi = 0 /\ v.lo = 0)

\* The duration literals the model feeds to time.ParseDuration.
DurationLiterals == {"5s", "500ms", "5ms", "0s", "abc", ""}

\* time.ParseDuration: the duration in ms, or an error (d is then 0).
ParseDuration(s) ==
    CASE s = "5s"    -> [err |-> FALSE, d |-> 5000]
      [] s = "500ms" -> [err |-> FALSE, d |-> 500]
      [] s = "5ms"   -> [err |-> FALSE, d |-> 5]
      [] s = "0s"    -> [err |-> FALSE, d |-> 0]
      [] OTHER       -> [err |-> TRUE,  d |-> 0]

\* The URL literals the model feeds to url.Parse.
UrlLiterals == {"https://ifconfig.co/", "http://u@lookup.test/api?k=1", ":bad"}

\* url.Parse: the *url.URL, or nil and an error.
UrlParse(s) ==
    CASE s = "https://ifconfig.co/" ->
            [err |-> FALSE,
             url |-> Some([Scheme |-> "https", User |-> "", Host |-> "ifconfig.co",
                           Path |-> "/", RawQuery |-> ""])]
      [] s = "http://u@lookup.test/api?k=1" ->
            [err |-> FALSE,
             url |-> Some([Scheme |-> "http", User |-> "u", Host |-> "lookup.test",
                           Path |-> "/api", RawQuery |-> "k=1"])]
      [] OTHER -> [err |-> TRUE, url |-> Null]

\* rate.NewLimiter(rate.Every(interval), burst).  rate.Every of an interval
\* <= 0 is rate.Inf.  The bucket starts full.  Its fill is kept as `debt`,
\* the time in ms the bucket needs to be full again: the limiter's tokens
\* are burst - debt / interval, a token is `interval` ms of debt, and the
\* bucket pays back one ms of debt per ms.
NewLimiter(interval, burst) ==
    [inf       |-> interval <= 0,
     interval  |-> interval,
     burst     |-> burst,
     debt      |-> 0,
     last      |-> 0,
     lastEvent |-> 0]

\* The provider blocks the lookups of the model run under: the defaults,
\* each setting changed alone, and configurations that fail.
LookupProviderData ==
    LET d == [ProviderURL |-> Null, Timeout |-> Null,
              RateLimitRate |-> Null, RateLimitBurst |-> Null] IN
    {d,
     [d EXCEPT !.Timeout = Some("5ms")],
     [d EXCEPT !.Timeout = Some("0s")],
     [d EXCEPT !.Timeout = Some("abc")],
     [d EXCEPT !.RateLimitRate = Some("0s")],
     [d EXCEPT !.RateLimitBurst = Some(I64(2))],
     [d EXCEPT !.ProviderURL = Some(":bad")]}

\* What the host hands to Configure: providerData.
ProviderDataSet ==
    [ProviderURL    : {Null} \cup {Some(u) : u \in {"http://u@lookup.test/api?k=1", ":bad"}},
     Timeout        : {Null} \cup {Some(t) : t \in {"5ms", "0s", "abc"}},
     RateLimitRate  : {Null} \cup {Some(r) : r \in {"0s", "abc"}},
     RateLimitBurst : {Null} \cup {Some(b) : b \in {I64(0), I64(2), I64MinusOne, I64Pow31}}]

\* configureProviderURL: p.ipURL is assigned whatever url.Parse returned.
configureProviderURL(providerURL, q) ==
    LET r == UrlParse(providerURL) IN
    [ok     |-> ~r.err,
     p      |-> [q EXCEPT !.ipURL = r.url],
     errors |-> IF r.err THEN {"Unable to parse the provider_url"} ELSE {}]

\* configureTimeout: p.timeout is assigned whatever ParseDuration returned.
configureTimeout(data, q) ==
    LET timeout == IF IsNull(data.Timeout) THEN DefaultTimeout ELSE Value(data.Timeout)
        r == ParseDuration(timeout) IN
    [ok     |-> ~r.err,
     p      |-> [q EXCEPT !.timeout = r.d],
     errors |-> IF r.err THEN {"Unable to parse the timeout"} ELSE {}]

\* rateLimitBurst with the lower check off by one (< 0 for <= 0).
rateLimitBurstAcceptsZero(data) ==
    IF IsNull(data.RateLimitBurst)
        THEN [ok |-> TRUE, burst |-> I64(DefaultRateLimitBurst)]
    ELSE IF GtMathMaxInt(Value(data.RateLimitBurst))
        THEN [ok |-> FALSE, burst |-> I64(0)]
    ELSE IF Value(data.RateLimitBurst).hi < 0
        THEN [ok |-> FALSE, burst |-> I64(0)]
    ELSE [ok |-> TRUE, burst |-> Value(data.RateLimitBurst)]

\* The burst checks of configureRateLimiter: the int to use, or an error.
rateLimitBurst(data) ==
    IF IsNull(data.RateLimitBurst)
        THEN [ok |-> TRUE, burst |-> I64(DefaultRateLimitBurst)]
    ELSE IF GtMathMaxInt(Value(data.RateLimitBurst))
        THEN [ok |-> FALSE, burst |-> I64(0)]
    ELSE IF I64LeqZero(Value(data.RateLimitBurst))
        THEN [ok |-> FALSE, burst |-> I64(0)]
    ELSE [ok |-> TRUE, burst |-> Value(data.RateLimitBurst)]

\* configureRateLimiter: on success a new limiter is allocated; `lims` is
\* the limiter store after the call and p.rateLimiter its index in it.
configureRateLimiter(data, q, lims) ==
    LET rateLimitRate == IF IsNull(data.RateLimitRate)
                            THEN DefaultRateLimitRate ELSE Value(data.RateLimitRate)
        r == ParseDuration(rateLimitRate)
        b == rateLimitBurst(data) IN
    IF r.err
        THEN [ok |-> FALSE, p |-> q, lims |-> lims,
              errors |-> {"Unable to parse the rate_limit_rate"}]
    ELSE IF ~b.ok
        THEN [ok |-> FALSE, p |-> q, lims |-> lims,
              errors |-> {"Unable to use the rate_limit_burst"}]
    ELSE [ok |-> TRUE,
          p |-> [q EXCEPT !.rateLimiter = Len(lims) + 1],
          lims |-> Append(lims, NewLimiter(r.d, b.burst)),
          errors |-> {}]

\* The whole of provider.Configure: the three steps short-circuit, each
\* leaves its assignment to p behind, and configured is set only at the end.
ConfigureResult(data, getErr, q, lims) ==
    LET providerURL == IF IsNull(data.ProviderURL)
                          THEN DefaultProviderURL ELSE Value(data.ProviderURL)
        u == configureProviderURL(providerURL, q)
        t == configureTimeout(data, u.p)
        l == configureRateLimiter(data, t.p, lims) IN
    IF getErr THEN [p |-> q, lims |-> lims, errors |-> {"Config.Get"}]
    ELSE IF ~u.ok THEN [p |-> u.p, lims |-> lims, errors |-> u.errors]
    ELSE IF ~t.ok THEN [p |-> t.p, lims |-> lims, errors |-> t.errors]
    ELSE IF ~l.ok THEN [p |-> l.p, lims |-> lims, errors |-> l.errors]
    ELSE [p |-> [l.p EXCEPT !.configured = TRUE], lims |-> l.lims, errors |-> {}]

\* (A process serves one of the two providers: once one of them has been
\* configured the other is not.)
Configure(data, getErr) ==
    /\ cfgCalls < MaxConfigures
    /\ ipProv.calls = 0
    /\ LET r == ConfigureResult(data, getErr, p, limiters) IN
        /\ p' = r.p
        /\ limiters' = r.lims
        /\ cfgErrors' = r.errors
    /\ cfgCalls' = cfgCalls + 1
    /\ UNCHANGED <<wordBits, now, ipProv, lookups>>

-----------------------------------------------------------------------------
(* The provider of the later framework API: IpProvider (ip_response.go).     *)
(* Its Configure fills a ProviderModel of its own and hands it to the data   *)
(* sources only when every step succeeded.                                   *)

\* New(version) of ip_response.go:208-214, before any Configure call.
NewIpProvider(version) ==
    [configured |-> FALSE, version |-> version, calls |-> 0,
     DataSourceData |-> Null, errors |-> {}]

\* IpProvider.configureProviderURL
ipConfigureProviderURL(data, m) ==
    LET providerURL == IF IsNull(data.ProviderURL)
                          THEN DefaultProviderURL ELSE Value(data.ProviderURL)
        r == UrlParse(providerURL) IN
    [ok     |-> ~r.err,
     m      |-> [m EXCEPT !.ipProviderURL = r.url],
     errors |-> IF r.err THEN {"Unable to parse the provider_url"} ELSE {}]

\* IpProvider.configureTimeout
ipConfigureTimeout(data, m) ==
    LET timeout == IF IsNull(data.Timeout) THEN DefaultTimeout ELSE Value(data.Timeout)
        r == ParseDuration(timeout) IN
    [ok     |-> ~r.err,
     m      |-> [m EXCEPT !.timeout = r.d],
     errors |-> IF r.err THEN {"Unable to parse the timeout"} ELSE {}]

\* IpProvider.configureRateLimiter
ipConfigureRateLimiter(data, m) ==
    LET rateLimitRate == IF IsNull(data.RateLimitRate)
                            THEN DefaultRateLimitRate ELSE Value(data.RateLimitRate)
        r == ParseDuration(rateLimitRate) IN
    IF r.err
        THEN [ok |-> FALSE, m |-> m, errors |-> {"Unable to parse the rate_limit_rate"}]
    ELSE IF IsNull(data.RateLimitBurst)
        THEN [ok |-> TRUE, errors |-> {},
              m |-> [m EXCEPT !.rateLimiter =
                        Some(NewLimiter(r.d, I64(DefaultRateLimitBurst)))]]
    ELSE IF GtMathMaxInt(Value(data.RateLimitBurst))
        THEN [ok |-> FALSE, m |-> m, errors |-> {"Unable to use the rate_limit_burst"}]
    ELSE IF I64LeqZero(Value(data.RateLimitBurst))
        THEN [ok |-> FALSE, m |-> m, errors |-> {"Unable to use the rate_limit_burst"}]
    ELSE [ok |-> TRUE, errors |-> {},
          m |-> [m EXCEPT !.rateLimiter =
                    Some(NewLimiter(r.d, Value(data.RateLimitBurst)))]]

\* The whole of IpProvider.Configure: the provider and its response.
IpConfigureResult(data, getErr, ip) ==
    LET m0 == [version |-> ip.version, ipProviderURL |-> Null,
               timeout |-> 0, rateLimiter |-> Null]
        u == ipConfigureProviderURL(data, m0)
        t == ipConfigureTimeout(data, u.m)
        l == ipConfigureRateLimiter(data, t.m)
        failed == [ip EXCEPT !.DataSourceData = Null, !.calls = @ + 1] IN
    IF getErr THEN [failed EXCEPT !.errors = {"Config.Get"}]
    ELSE IF ~u.ok THEN [failed EXCEPT !.errors = u.errors]
    ELSE IF ~t.ok THEN [failed EXCEPT !.errors = t.errors]
    ELSE IF ~l.ok THEN [failed EXCEPT !.errors = l.errors]
    ELSE [ip EXCEPT !.DataSourceData = Some(l.m), !.configured = TRUE,
                    !.errors = {}, !.calls = @ + 1]

IpConfigure(data, getErr) ==
    /\ ipProv.calls < MaxConfigures
    /\ cfgCalls = 0
    /\ ipProv' = IpConfigureResult(data, getErr, ipProv)
    /\ UNCHANGED <<wordBits, now, p, limiters, cfgCalls, cfgErrors, lookups>>

-----------------------------------------------------------------------------

\* provider.New(version): only version is set; main passes "dev".
New(version) ==
    [timeout     |-> 0,
     ipURL       |-> Null,
     rateLimiter |-> 0,
     configured  |-> FALSE,
     version     |-> version,
     toolName    |-> ""]

-----------------------------------------------------------------------------
(* The token bucket as Read uses it: rate.Limiter's Allow, Wait and the      *)
(* reservation Wait cancels when its context ends first.                     *)

Max(a, b) == IF a >= b THEN a ELSE b

\* Limiter.advance: the debt left at time t.
advance(lim, t) ==
    LET last == IF t < lim.last THEN t ELSE lim.last IN
    Max(0, lim.debt - (t - last))

\* How long a bucket with this debt must refill before its tokens are >= 0:
\* durationFromTokens(-tokens).  A burst of 2^31 or more is never short of
\* tokens within a debt the model can reach.
waitDuration(lim, debt) ==
    IF lim.burst.hi > 0 THEN 0 ELSE Max(0, debt - lim.burst.lo * lim.interval)

\* reserveN that grants however far away the token is.
reserveNUnbounded(lim, t, maxFutureReserve) ==
    IF lim.inf THEN [ok |-> TRUE, lim |-> lim, timeToAct |-> t]
    ELSE LET debt == advance(lim, t) + lim.interval
             wait == waitDuration(lim, debt) IN
         [ok |-> TRUE,
          lim |-> [lim EXCEPT !.debt = debt, !.last = t, !.lastEvent = t + wait],
          timeToAct |-> t + wait]

\* Limiter.reserveN(t, 1, maxFutureReserve)
reserveN(lim, t, maxFutureReserve) ==
    IF lim.inf THEN [ok |-> TRUE, lim |-> lim, timeToAct |-> t]
    ELSE LET debt == advance(lim, t) + lim.interval
             wait == waitDuration(lim, debt) IN
         IF wait <= maxFutureReserve
            THEN [ok |-> TRUE,
                  lim |-> [lim EXCEPT !.debt = debt, !.last = t, !.lastEvent = t + wait],
                  timeToAct |-> t + wait]
            ELSE [ok |-> FALSE, lim |-> lim, timeToAct |-> t]

\* Allow that also sets the burst of the limiter to the tokens left.
AllowLoweringBurst(lim, t) ==
    LET r == reserveN(lim, t, 0) IN
    [r EXCEPT !.lim = [r.lim EXCEPT !.burst = I64(0)]]

\* Limiter.Allow() is reserveN(now, 1, 0).ok: it takes a token when one is there.
Allow(lim, t) == reserveN(lim, t, 0)

\* Reservation.CancelAt(t) of a reservation of one token due at timeToAct.
CancelAt(lim, timeToAct, t) ==
    LET restore == lim.interval - (lim.lastEvent - timeToAct)
        prevEvent == timeToAct - lim.interval IN
    IF lim.inf \/ timeToAct < t \/ restore <= 0 THEN lim
    ELSE [lim EXCEPT !.debt = Max(0, advance(lim, t) - restore),
                     !.last = t,
                     !.lastEvent = IF timeToAct = lim.lastEvent /\ prevEvent >= t
                                      THEN prevEvent ELSE lim.lastEvent]

-----------------------------------------------------------------------------
(* Addresses: inet.af/netaddr *)

IPVersion4 == "v4"
IPVersion6 == "v6"
IPUnknown == "unknown"

\* netaddr.IP{}: the zero address
ZeroIP == [z |-> "zero", text |-> "zero IP"]

\* netaddr.ParseIP on the literals of the model: the address (its family
\* and its canonical text, which IP.String() returns) or an error.
ParseIP(s) ==
    CASE s = "0.0.0.0"     -> [err |-> FALSE, ip |-> [z |-> "v4", text |-> "0.0.0.0"]]
      [] s = "203.0.113.5" -> [err |-> FALSE, ip |-> [z |-> "v4", text |-> "203.0.113.5"]]
      [] s = "::"          -> [err |-> FALSE, ip |-> [z |-> "v6", text |-> "::"]]
      [] s = "2001:db8::1" -> [err |-> FALSE, ip |-> [z |-> "v6", text |-> "2001:db8::1"]]
      [] s = "2001:DB8:0:0:0:0:0:1" ->
                              [err |-> FALSE, ip |-> [z |-> "v6", text |-> "2001:db8::1"]]
      [] OTHER             -> [err |-> TRUE,  ip |-> ZeroIP]

Is4(ip) == ip.z = "v4"
Is6(ip) == ip.z = "v6"
IsZero(ip) == ip.z = "zero"
IsValid(ip) == ~IsZero(ip)

\* ipVersion with the two labels exchanged.
ipVersionSwapped(netIP) ==
    IF Is6(netIP) THEN IPVersion4
    ELSE IF Is4(netIP) THEN IPVersion6
    ELSE IPUnknown

\* ipVersion(netIP) of the data source with source_ip
ipVersion(netIP) ==
    IF Is6(netIP) THEN IPVersion6
    ELSE IF Is4(netIP) THEN IPVersion4
    ELSE IPUnknown

-----------------------------------------------------------------------------
(* The upstream service and the network *)

\* What upstream can put in a JSON body: each field present or omitted.
JsonBodies ==
    {[ip |-> Some("203.0.113.5"), asn |-> Some("AS64500"), asn_org |-> Some("Example")],
     [ip |-> Some("2001:db8::1"), asn |-> Null, asn_org |-> Null],
     [ip |-> Some("2001:DB8:0:0:0:0:0:1"), asn |-> Some("AS64500"), asn_org |-> Null],
     [ip |-> Some("999.1.1.1"), asn |-> Some("AS64500"), asn_org |-> Some("Example")],
     [ip |-> Some(""), asn |-> Null, asn_org |-> Some("Example")],
     [ip |-> Null, asn |-> Null, asn_org |-> Null]}

\* What client.Do can come back with: a transport error, or a response with
\* a status and a body that is malformed or a JSON object.
Responses ==
    {[kind |-> "error", status |-> 0, json |-> Null]}
    \cup {[kind |-> "http", status |-> 503, json |-> Null]}
    \cup {[kind |-> "http", status |-> 200, json |-> Null]}
    \cup {[kind |-> "http", status |-> 200, json |-> Some(b)] : b \in JsonBodies}

\* json.Decoder.Decode into IPResponse: an omitted field is left "".
Decode(body) ==
    [IP     |-> IF IsNull(body.ip) THEN "" ELSE Value(body.ip),
     ASN    |-> IF IsNull(body.asn) THEN "" ELSE Value(body.asn),
     ASNOrg |-> IF IsNull(body.asn_org) THEN "" ELSE Value(body.asn_org)]

\* path.Join(baseURL.Path, "json")
PathJoinJson(path) ==
    CASE path = ""     -> "json"
      [] path = "/"    -> "/json"
      [] path = "/api" -> "/api/json"

\* The moments the clock of the model stops at.
Instants == {t \in {5, 500, 505, 1000, 1005} : t <= MaxTime}

-----------------------------------------------------------------------------
(* ipDataSource.Read of the data source with source_ip (part_000:138-277) *)

\* The source_ip values of the model: null, empty, literals (one of them not
\* in canonical form), a text that is no address.
SourceIPs ==
    {Null} \cup {Some(s) : s \in {"", "::", "0.0.0.0", "2001:DB8:0:0:0:0:0:1",
                                  "not-an-ip"}}

NoRequest == [url |-> Null, userAgent |-> "", method |-> ""]
NoState == Null

\* A lookup before Read has run a line.
NewLookup(rev, q) ==
    [rev        |-> rev,
     pc         |-> "start",
     IPVersion  |-> Null,
     SourceIP   |-> Null,
     provider   |-> q,
     errors     |-> {},
     network    |-> "",
     sourceIP   |-> ZeroIP,
     request    |-> NoRequest,
     deadline   |-> 0,
     timeToAct  |-> 0,
     cancelled  |-> FALSE,
     dialed     |-> FALSE,
     sent       |-> 0,
     sentAt     |-> 0,
     state      |-> NoState]

\* parseSourceIP that goes on with the zero address when the text is no
\* address.
parseSourceIPAcceptingAny(SourceIP) ==
    LET v == IF IsNull(SourceIP) THEN "" ELSE Value(SourceIP)
        r == ParseIP(v) IN
    IF v = "" THEN [ok |-> TRUE, value |-> v, ip |-> ZeroIP]
    ELSE [ok |-> TRUE, value |-> v, ip |-> r.ip]

\* Lines 156-171: the source address, or the "Invalid IP" error.
parseSourceIP(SourceIP) ==
    LET v == IF IsNull(SourceIP) THEN "" ELSE Value(SourceIP)
        r == ParseIP(v) IN
    IF v = "" THEN [ok |-> TRUE, value |-> v, ip |-> ZeroIP]
    ELSE IF r.err \/ ~IsValid(r.ip) THEN [ok |-> FALSE, value |-> v, ip |-> r.ip]
    ELSE [ok |-> TRUE, value |-> v, ip |-> r.ip]

\* dialNetwork with the two families exchanged.
dialNetworkSwapped(value, sourceIP) ==
    IF value # "" /\ Is6(sourceIP) THEN "tcp4"
    ELSE IF value # "" /\ Is4(sourceIP) THEN "tcp6"
    ELSE "tcp"

\* Lines 173-180: the network to dial.
dialNetwork(value, sourceIP) ==
    IF value # "" /\ Is6(sourceIP) THEN "tcp6"
    ELSE IF value # "" /\ Is4(sourceIP) THEN "tcp4"
    ELSE "tcp"

\* forceNetwork of http_client.go: the network and the local address the
\* transport's dialer is set up with.  The zero address leaves LocalAddr
\* unset.
forceNetwork(network, sourceIP) ==
    [network   |-> network,
     LocalAddr |-> IF IsZero(sourceIP) THEN Null ELSE Some(sourceIP.text)]

\* forceNetwork of provider.go, behind forceV4 and forceV6: the network
\* alone.  Without ip_version the client keeps the default transport, which
\* dials "tcp" with no local address.
forceNetworkOnly(network) == [network |-> network, LocalAddr |-> Null]

\* The dialer a lookup's client dials with.
dialer(l) ==
    IF l.rev = "version" THEN forceNetworkOnly(l.network)
    ELSE forceNetwork(l.network, l.sourceIP)

\* Lines 184-207: the GET request.
buildRequest(q) ==
    LET baseURL == Value(q.ipURL) IN
    [url       |-> Some([baseURL EXCEPT !.Path = PathJoinJson(baseURL.Path)]),
     userAgent |-> q.toolName \o " (" \o q.version \o ")",
     method    |-> "GET"]

\* Read from its first line to the request being ready (lines 138-209).
\* NewDataSource has copied the provider struct as it is now.
readPrepare(SourceIP, getErr, q) ==
    LET l0 == [NewLookup("source", q) EXCEPT !.SourceIP = SourceIP]
        s == parseSourceIP(SourceIP)
        l1 == [l0 EXCEPT !.SourceIP = Some(s.value), !.sourceIP = s.ip] IN
    IF getErr THEN [l0 EXCEPT !.pc = "done", !.errors = {"Config.Get"}]
    ELSE IF ~s.ok THEN [l1 EXCEPT !.pc = "done", !.errors = {"Invalid IP"}]
    ELSE IF IsNull(q.ipURL)
        THEN [l1 EXCEPT !.pc = "panic", !.network = dialNetwork(s.value, s.ip)]
    ELSE [l1 EXCEPT !.pc = "allow",
                    !.network = dialNetwork(s.value, s.ip),
                    !.request = buildRequest(q)]

Read(SourceIP, getErr) ==
    /\ Len(lookups) < MaxLookups
    /\ lookups' = Append(lookups, readPrepare(SourceIP, getErr, p))
    /\ UNCHANGED <<wordBits, now, p, limiters, cfgCalls, cfgErrors, ipProv>>

\* Lines 211-216: the Allow() probe, then the context with the timeout.
\* A nil limiter is a nil pointer dereference.
ReadAllow(i) ==
    LET l == lookups[i]
        lim == l.provider.rateLimiter IN
    /\ l.pc = "allow"
    /\ IF lim = 0
          THEN /\ lookups' = [lookups EXCEPT ![i].pc = "panic"]
               /\ UNCHANGED limiters
          ELSE /\ limiters' = [limiters EXCEPT ![lim] = Allow(limiters[lim], now).lim]
               /\ lookups' = [lookups EXCEPT ![i].pc = "wait",
                                             ![i].deadline = now + l.provider.timeout]
    /\ UNCHANGED <<wordBits, now, p, cfgCalls, cfgErrors, ipProv>>

\* The context Wait is given has ended: the host cancelled, or the deadline passed.
ctxDone(l) == l.cancelled \/ now >= l.deadline

\* What Read does with Wait's error (lines 218-221): it records the error.
\* (The context with the timeout and the reservation are not used after Wait.)
afterWaitError(l) ==
    [l EXCEPT !.errors = @ \cup {"Error waiting for rate limit"}, !.pc = "send",
              !.deadline = 0, !.timeToAct = 0]

\* Line 217, Wait up to its sleep: the context is checked, then a token is
\* reserved no later than the deadline.
ReadWait(i) ==
    LET l == lookups[i]
        lim == l.provider.rateLimiter
        r == reserveN(limiters[lim], now, l.deadline - now) IN
    /\ l.pc = "wait"
    /\ IF ctxDone(l) \/ ~r.ok
          THEN /\ lookups' = [lookups EXCEPT ![i] = afterWaitError(l)]
               /\ UNCHANGED limiters
          ELSE /\ limiters' = [limiters EXCEPT ![lim] = r.lim]
               /\ lookups' = [lookups EXCEPT ![i] =
                      IF r.timeToAct > now
                         THEN [l EXCEPT !.pc = "sleep", !.timeToAct = r.timeToAct]
                         ELSE [l EXCEPT !.pc = "send", !.deadline = 0]]
    /\ UNCHANGED <<wordBits, now, p, cfgCalls, cfgErrors, ipProv>>

\* Wait's timer fires.
ReadWake(i) ==
    LET l == lookups[i] IN
    /\ l.pc = "sleep"
    /\ now >= l.timeToAct
    /\ lookups' = [lookups EXCEPT ![i] =
          [l EXCEPT !.pc = "send", !.deadline = 0, !.timeToAct = 0]]
    /\ UNCHANGED <<wordBits, now, p, limiters, cfgCalls, cfgErrors, ipProv>>

\* Wait's context ends while it sleeps: the reservation is cancelled.
ReadWaitCtxDone(i) ==
    LET l == lookups[i]
        lim == l.provider.rateLimiter IN
    /\ l.pc = "sleep"
    /\ ctxDone(l)
    /\ limiters' = [limiters EXCEPT ![lim] = CancelAt(limiters[lim], l.timeToAct, now)]
    /\ lookups' = [lookups EXCEPT ![i] = afterWaitError(l)]
    /\ UNCHANGED <<wordBits, now, p, cfgCalls, cfgErrors, ipProv>>

\* Line 223, client.Do up to the request being on the wire.  The request
\* carries Read's own context: when that is cancelled nothing is dialed.
\* Otherwise the transport dials (forceNetwork's DialContext) and the dial
\* fails or connects.
ReadSend(i, dialOk) ==
    LET l == lookups[i] IN
    /\ l.pc = "send"
    /\ lookups' = [lookups EXCEPT ![i] =
          IF l.cancelled
             THEN [l EXCEPT !.pc = "done",
                            !.errors = @ \cup {"Error fetching information"}]
          ELSE IF ~dialOk
             THEN [l EXCEPT !.pc = "done", !.dialed = TRUE,
                            !.errors = @ \cup {"Error fetching information"}]
          ELSE [l EXCEPT !.pc = "inflight", !.dialed = TRUE, !.sent = @ + 1,
                         !.sentAt = now]]
    /\ UNCHANGED <<wordBits, now, p, limiters, cfgCalls, cfgErrors, ipProv>>

\* applyResponse with the two booleans exchanged.
applyResponseSwapped(l, respData, ip) ==
    [ID        |-> Value(l.SourceIP) \o "$" \o respData.IP,
     IP        |-> ip.text,
     IPVersion |-> ipVersion(ip),
     IsIPv6    |-> Is4(ip),
     IsIPv4    |-> Is6(ip),
     ASNID     |-> respData.ASN,
     ASNOrg    |-> respData.ASNOrg,
     SourceIP  |-> Value(l.SourceIP)]

\* applyResponse with source_ip written in canonical form.
applyResponseCanonicalSource(l, respData, ip) ==
    [ID        |-> Value(l.SourceIP) \o "$" \o respData.IP,
     IP        |-> ip.text,
     IPVersion |-> ipVersion(ip),
     IsIPv6    |-> Is6(ip),
     IsIPv4    |-> Is4(ip),
     ASNID     |-> respData.ASN,
     ASNOrg    |-> respData.ASNOrg,
     SourceIP  |-> IF IsZero(l.sourceIP) THEN "" ELSE l.sourceIP.text]

\* Lines 262-269: the attributes written from the response.
applyResponse(l, respData, ip) ==
    [ID        |-> Value(l.SourceIP) \o "$" \o respData.IP,
     IP        |-> ip.text,
     IPVersion |-> ipVersion(ip),
     IsIPv6    |-> Is6(ip),
     IsIPv4    |-> Is4(ip),
     ASNID     |-> respData.ASN,
     ASNOrg    |-> respData.ASNOrg,
     SourceIP  |-> Value(l.SourceIP)]

\* Lines 224-277: what Read does with what client.Do returned.
readResponse(l, resp) ==
    LET respData == Decode(Value(resp.json))
        r == ParseIP(respData.IP)
        l1 == [l EXCEPT !.pc = "done", !.sentAt = 0] IN
    IF resp.kind = "error"
        THEN [l1 EXCEPT !.errors = @ \cup {"Error fetching information"}]
    ELSE IF resp.status # 200
        THEN [l1 EXCEPT !.errors = @ \cup {"Error in response"}]
    ELSE IF IsNull(resp.json)
        THEN [l1 EXCEPT !.errors = @ \cup {"Error parsing the response"}]
    ELSE IF r.err
        THEN [l1 EXCEPT !.errors = @ \cup {"Error parsing the IP"}]
    ELSE [l1 EXCEPT !.state = Some(applyResponse(l, respData, r.ip))]

\* http.Client.Timeout: past it client.Do returns only an error (0: no timeout).
clientTimedOut(l) == l.provider.timeout > 0 /\ now >= l.sentAt + l.provider.timeout

ReadRespond(i, resp) ==
    LET l == lookups[i] IN
    /\ l.pc = "inflight"
    /\ l.rev = "source"
    /\ clientTimedOut(l) => resp.kind = "error"
    /\ lookups' = [lookups EXCEPT ![i] = readResponse(l, resp)]
    /\ UNCHANGED <<wordBits, now, p, limiters, cfgCalls, cfgErrors, ipProv>>

-----------------------------------------------------------------------------
(* ipDataSource.Read of the data source with ip_version                      *)
(* (ip_address_data_source.go:70-165) and its validator (part_000:23-37)     *)

\* The ip_version values of the model: null, the two constants, another case.
IPVersions == {Null} \cup {Some(v) : v \in {"v4", "v6", "V4"}}

\* Validate that takes "V4" and "V6" for the two constants as well.
ValidateIgnoringCase(IPVersion) ==
    IF IsNull(IPVersion) THEN {}
    ELSE IF ~(Value(IPVersion) \in {IPVersion4, IPVersion6, "V4", "V6"})
        THEN {"Unrecognized 'ip_version'"}
    ELSE {}

\* ipVersionValidator.Validate: the errors it adds.
Validate(IPVersion) ==
    IF IsNull(IPVersion) THEN {}
    ELSE IF ~(Value(IPVersion) = IPVersion4 \/ Value(IPVersion) = IPVersion6)
        THEN {"Unrecognized 'ip_version'"}
    ELSE {}

\* Lines 88-95: forceV6 / forceV4 set the network of the client's dialer;
\* without ip_version the client keeps the default transport.
forcedNetwork(IPVersion) ==
    IF ~IsNull(IPVersion) /\ Value(IPVersion) = IPVersion6 THEN "tcp6"
    ELSE IF ~IsNull(IPVersion) /\ Value(IPVersion) = IPVersion4 THEN "tcp4"
    ELSE "tcp"

\* strings.Contains(ip, ":") on the literals of the model
ContainsColon(ip) == ip \in {"::", "2001:db8::1", "2001:DB8:0:0:0:0:0:1"}

\* ipVersionFor without the early return for a given version.
ipVersionForIgnoringVersion(version, ip) ==
    IF ContainsColon(ip) THEN IPVersion6 ELSE IPVersion4

\* ipVersion(version, ip) of the data source with ip_version
ipVersionFor(version, ip) ==
    IF ~IsNull(version) THEN Value(version)
    ELSE IF ContainsColon(ip) THEN IPVersion6
    ELSE IPVersion4

\* The host validates the configuration, and on success calls Read, which
\* runs from its first line to the request being ready (lines 70-122).
readByVersionPrepare(IPVersion, getErr, q) ==
    LET l0 == [NewLookup("version", q) EXCEPT !.IPVersion = IPVersion] IN
    IF Validate(IPVersion) # {}
        THEN [l0 EXCEPT !.pc = "rejected", !.errors = Validate(IPVersion)]
    ELSE IF getErr THEN [l0 EXCEPT !.pc = "done", !.errors = {"Config.Get"}]
    ELSE IF IsNull(q.ipURL)
        THEN [l0 EXCEPT !.pc = "panic", !.network = forcedNetwork(IPVersion)]
    ELSE [l0 EXCEPT !.pc = "send",
                    !.network = forcedNetwork(IPVersion),
                    !.request = buildRequest(q)]

ReadByVersion(IPVersion, getErr) ==
    /\ Len(lookups) < MaxLookups
    /\ lookups' = Append(lookups, readByVersionPrepare(IPVersion, getErr, p))
    /\ UNCHANGED <<wordBits, now, p, limiters, cfgCalls, cfgErrors, ipProv>>

\* Lines 154-157: the attributes written from the response.
applyResponseByVersion(l, respData) ==
    [IP        |-> respData.IP,
     ASNID     |-> respData.ASN,
     ASNOrg    |-> respData.ASNOrg,
     IPVersion |-> ipVersionFor(l.IPVersion, respData.IP)]

\* Lines 125-165: what Read does with what client.Do returned.
readByVersionResponse(l, resp) ==
    LET respData == Decode(Value(resp.json))
        l1 == [l EXCEPT !.pc = "done", !.sentAt = 0] IN
    IF resp.kind = "error"
        THEN [l1 EXCEPT !.errors = @ \cup {"Error fetching information"}]
    ELSE IF resp.status # 200
        THEN [l1 EXCEPT !.errors = @ \cup {"Error in response"}]
    ELSE IF IsNull(resp.json)
        THEN [l1 EXCEPT !.errors = @ \cup {"Error parsing the response"}]
    ELSE [l1 EXCEPT !.state = Some(applyResponseByVersion(l, respData))]

ReadByVersionRespond(i, resp) ==
    LET l == lookups[i] IN
    /\ l.pc = "inflight"
    /\ l.rev = "version"
    /\ clientTimedOut(l) => resp.kind = "error"
    /\ lookups' = [lookups EXCEPT ![i] = readByVersionResponse(l, resp)]
    /\ UNCHANGED <<wordBits, now, p, limiters, cfgCalls, cfgErrors, ipProv>>

\* The host cancels the context it gave Read.  Read looks at its context in
\* Wait and in client.Do only: a cancellation before Wait is seen as one at
\* Wait, and one after the request is out ends as a transport error.
HostCancel(i) ==
    /\ lookups[i].pc \in {"wait", "sleep", "send"}
    /\ ~lookups[i].cancelled
    /\ lookups' = [lookups EXCEPT ![i].cancelled = TRUE]
    /\ UNCHANGED <<wordBits, now, p, limiters, cfgCalls, cfgErrors, ipProv>>

\* Time passes.
Advance(t) ==
    /\ t > now
    /\ now' = t
    /\ UNCHANGED <<wordBits, p, limiters, cfgCalls, cfgErrors, ipProv, lookups>>

\* After construction: main.go:39 builds the provider with New(version), and
\* version is "dev" unless the release build sets it.
Init ==
    /\ wordBits = 64
    /\ now = 0
    /\ p = New("dev")
    /\ limiters = <<>>
    /\ cfgCalls = 0
    /\ cfgErrors = {}
    /\ ipProv = NewIpProvider("dev")
    /\ lookups = <<>>

Next ==
    \/ \E data \in LookupProviderData : Configure(data, FALSE)
    \/ \E s \in SourceIPs, getErr \in BOOLEAN : Read(s, getErr)
    \/ \E v \in IPVersions, getErr \in BOOLEAN : ReadByVersion(v, getErr)
    \/ \E i \in 1..Len(lookups), resp \in Responses : ReadByVersionRespond(i, resp)
    \/ \E i \in 1..Len(lookups) : ReadAllow(i)
    \/ \E i \in 1..Len(lookups) : ReadWait(i)
    \/ \E i \in 1..Len(lookups) : ReadWake(i)
    \/ \E i \in 1..Len(lookups) : ReadWaitCtxDone(i)
    \/ \E i \in 1..Len(lookups), dialOk \in BOOLEAN : ReadSend(i, dialOk)
    \/ \E i \in 1..Len(lookups), resp \in Responses : ReadRespond(i, resp)
    \/ \E i \in 1..Len(lookups) : HostCancel(i)
    \/ \E t \in Instants : Advance(t)

Spec == Init /\ [][Next]_vars

\* Configuration alone, over every provider block of ProviderDataSet and
\* for both providers of the repository.
NextConfigure ==
    \/ \E data \in ProviderDataSet, getErr \in BOOLEAN : Configure(data, getErr)
    \/ \E data \in ProviderDataSet, getErr \in BOOLEAN : IpConfigure(data, getErr)

\* The same start on either build: int of 32 or of 64 bits.
InitConfigure ==
    /\ wordBits \in {32, 64}
    /\ now = 0
    /\ p = New("dev")
    /\ limiters = <<>>
    /\ cfgCalls = 0
    /\ cfgErrors = {}
    /\ ipProv = NewIpProvider("dev")
    /\ lookups = <<>>

SpecConfigure == InitConfigure /\ [][NextConfigure]_vars

\* client.Do on a redirect.  The http.Client Read builds (part_000:152-154,
\* ip_address_data_source.go:84-86) sets no CheckRedirect, so the client
\* follows a 3xx answer to a GET and sends the request again, to the
\* Location of the answer, up to 10 times; Read sees the last answer only.
ReadRedirect(i) ==
    /\ lookups[i].pc = "inflight"
    /\ lookups[i].rev \in {"source", "version"}
    /\ ~clientTimedOut(lookups[i])
    /\ lookups[i].sent <= MaxRedirects
    /\ lookups' = [lookups EXCEPT ![i].sent = @ + 1]
    /\ UNCHANGED <<wordBits, now, p, limiters, cfgCalls, cfgErrors, ipProv>>

\* The lookups of both data sources against an upstream that may redirect.
NextRedirect ==
    \/ Next
    \/ \E i \in 1..Len(lookups) : ReadRedirect(i)

SpecRedirect == Init /\ [][NextRedirect]_vars

-----------------------------------------------------------------------------
(* Lookups to their end.  Each Read runs on a goroutine of its own, so a     *)
(* lookup that can take a step takes it; the clock reaches every timer that  *)
(* is set; the client returns once its Timeout is over.  Upstream is not     *)
(* bound to answer, and the host is not bound to cancel.                     *)

\* The provider blocks of these lookups: the timeout given as "5ms" or "0s",
\* or left at its default.
LiveProviderData ==
    {d \in LookupProviderData :
        /\ IsNull(d.ProviderURL) /\ IsNull(d.RateLimitRate) /\ IsNull(d.RateLimitBurst)
        /\ d.Timeout \in {Null, Some("5ms"), Some("0s")}}

\* What upstream answers when it does: a transport error, a 503, a result.
LiveResponses ==
    {resp \in Responses :
        \/ IsNull(resp.json)
        \/ Decode(Value(resp.json)).IP = "203.0.113.5"}

\* The timers that are set: the end of Wait's context and the moment its
\* token is due (context.WithTimeout and Wait, part_000:215-217), and the
\* end of the client's Timeout, which a Timeout of 0 does not set
\* (part_000:152-154).
Timers ==
    {lookups[i].deadline : i \in {j \in 1..Len(lookups) : lookups[j].pc = "sleep"}}
    \cup {lookups[i].timeToAct :
             i \in {j \in 1..Len(lookups) : lookups[j].pc = "sleep"}}
    \cup {lookups[i].sentAt + lookups[i].provider.timeout :
             i \in {j \in 1..Len(lookups) :
                       lookups[j].pc = "inflight" /\ lookups[j].provider.timeout > 0}}

\* Time passes up to a timer that is set.
AdvanceToTimer ==
    /\ \E t \in Timers : t > now /\ now' = t
    /\ UNCHANGED <<wordBits, p, limiters, cfgCalls, cfgErrors, ipProv, lookups>>

\* The client's Timeout is over: client.Do returns with an error.
ClientTimeout(i) ==
    LET resp == [kind |-> "error", status |-> 0, json |-> Null] IN
    /\ lookups[i].pc = "inflight"
    /\ clientTimedOut(lookups[i])
    /\ ReadRespond(i, resp) \/ ReadByVersionRespond(i, resp)

\* The steps lookup i takes by itself.
LookupStep(i) ==
    /\ i \in 1..Len(lookups)
    /\ \/ ReadAllow(i)
       \/ ReadWait(i)
       \/ ReadWake(i)
       \/ ReadWaitCtxDone(i)
       \/ \E dialOk \in BOOLEAN : ReadSend(i, dialOk)
       \/ ClientTimeout(i)

\* Lookups under a provider whose configuration was accepted.
NextLive ==
    \/ \E data \in LiveProviderData : Configure(data, FALSE)
    \/ p.configured /\ Read(Null, FALSE)
    \/ p.configured /\ ReadByVersion(Null, FALSE)
    \/ \E i \in 1..Len(lookups) : LookupStep(i)
    \/ \E i \in 1..Len(lookups), resp \in LiveResponses : ReadRespond(i, resp)
    \/ \E i \in 1..Len(lookups), resp \in LiveResponses : ReadByVersionRespond(i, resp)
    \/ \E i \in 1..Len(lookups) : HostCancel(i)
    \/ \E t \in Instants : Advance(t)
    \/ AdvanceToTimer

FairLive ==
    /\ \A i \in 1..MaxLookups : WF_vars(LookupStep(i))
    /\ WF_vars(AdvanceToTimer)

SpecLive == Init /\ [][NextLive]_vars /\ FairLive

-----------------------------------------------------------------------------
(* A data block against the schema of its data source.  The host checks the  *)
(* arguments of a block against GetSchema before it calls Read: an argument  *)
(* the schema does not declare, or declares as computed only, is an error    *)
(* of the configuration, and Read is not called.                             *)

\* The arguments a configuration may set in the data source of
\* ip_address_data_source.go: ip_version is Optional, there is no source_ip.
GetSchemaByVersion == {"ip_version"}

\* GetSchemaBySource with ip_version Optional as well.
GetSchemaBySourceAndVersion == {"source_ip", "ip_version"}

\* The arguments a configuration may set in the data source of part_000:
\* source_ip is Optional, ip_version is Computed only.
GetSchemaBySource == {"source_ip"}

\* The arguments a data block sets.
Arguments(SourceIP, IPVersion) ==
    (IF IsNull(SourceIP) THEN {} ELSE {"source_ip"})
        \cup (IF IsNull(IPVersion) THEN {} ELSE {"ip_version"})

\* The lookup of a block the host has refused.
invalidConfiguration(rev, SourceIP, IPVersion, q) ==
    [NewLookup(rev, q) EXCEPT !.SourceIP = SourceIP, !.IPVersion = IPVersion,
                              !.pc = "rejected",
                              !.errors = {"Invalid Configuration"}]

\* A data block of the data source with source_ip: checked, then read.
\* Read leaves data.IPVersion as the configuration has it until it writes
\* the state.
ValidateAndRead(SourceIP, IPVersion) ==
    /\ Len(lookups) < MaxLookups
    /\ lookups' = Append(lookups,
          IF Arguments(SourceIP, IPVersion) \subseteq GetSchemaBySource
             THEN [readPrepare(SourceIP, FALSE, p) EXCEPT !.IPVersion = IPVersion]
             ELSE invalidConfiguration("source", SourceIP, IPVersion, p))
    /\ UNCHANGED <<wordBits, now, p, limiters, cfgCalls, cfgErrors, ipProv>>

\* A data block of the data source with ip_version: checked, then read.
ValidateAndReadByVersion(SourceIP, IPVersion) ==
    /\ Len(lookups) < MaxLookups
    /\ lookups' = Append(lookups,
          IF Arguments(SourceIP, IPVersion) \subseteq GetSchemaByVersion
             THEN [readByVersionPrepare(IPVersion, FALSE, p)
                      EXCEPT !.SourceIP = SourceIP]
             ELSE invalidConfiguration("version", SourceIP, IPVersion, p))
    /\ UNCHANGED <<wordBits, now, p, limiters, cfgCalls, cfgErrors, ipProv>>

-----------------------------------------------------------------------------
(* The data source of IpProvider.  IpProvider.DataSources                    *)
(* (ip_response.go:175-179) returns NewIpDataSource, whose code is not among *)
(* the sources; its tests (ip_address_data_source.go:230-319) set ip_version *)
(* in one block and source_ip in another and read both attributes back.  It  *)
(* is modelled here from the design description of the lookup operation:     *)
(* validate, throttle, build, send, validate status, decode, normalize.      *)

\* const UserAgent of ip_response.go
UserAgent == "terraform-provider-publicip"

\* The arguments a configuration may set: ip_version and source_ip.
GetSchemaIpDataSource == {"ip_version", "source_ip"}

\* The ProviderModel that Configure handed over, as the data source uses it.
\* The limiter stays in the ProviderModel, which every data source shares.
ipDataSourceProvider(m) ==
    [timeout     |-> m.timeout,
     ipURL       |-> m.ipProviderURL,
     rateLimiter |-> 0,
     configured  |-> TRUE,
     version     |-> m.version,
     toolName    |-> UserAgent]

\* The source address is of one family and the requested version is the other.
familyConflict(sourceIP, IPVersion) ==
    /\ ~IsNull(IPVersion)
    /\ ~IsZero(sourceIP)
    /\ ipVersion(sourceIP) # Value(IPVersion)

\* The family to dial: the requested version, else that of the source
\* address, else any.
effectiveNetwork(value, sourceIP, IPVersion) ==
    IF ~IsNull(IPVersion) THEN forcedNetwork(IPVersion)
    ELSE dialNetwork(value, sourceIP)

\* Step 1, Validate.
ipReadValidate(SourceIP, IPVersion, q) ==
    LET l0 == [NewLookup("both", q) EXCEPT !.SourceIP = SourceIP,
                                           !.IPVersion = IPVersion]
        s == parseSourceIP(SourceIP) IN
    IF ~(Arguments(SourceIP, IPVersion) \subseteq GetSchemaIpDataSource)
        THEN invalidConfiguration("both", SourceIP, IPVersion, q)
    ELSE IF Validate(IPVersion) # {}
        THEN [l0 EXCEPT !.pc = "rejected", !.errors = Validate(IPVersion)]
    ELSE IF ~s.ok \/ familyConflict(s.ip, IPVersion)
        THEN [l0 EXCEPT !.pc = "rejected", !.errors = {"InvalidInputError"}]
    ELSE [l0 EXCEPT !.pc = "acquire",
                    !.sourceIP = s.ip,
                    !.network = effectiveNetwork(s.value, s.ip, IPVersion)]

\* A lookup starts.  Lookups run only under a provider that was configured.
IpRead(SourceIP, IPVersion) ==
    /\ Len(lookups) < MaxLookups
    /\ ~IsNull(ipProv.DataSourceData)
    /\ lookups' = Append(lookups,
          ipReadValidate(SourceIP, IPVersion,
                         ipDataSourceProvider(Value(ipProv.DataSourceData))))
    /\ UNCHANGED <<wordBits, now, p, limiters, cfgCalls, cfgErrors, ipProv>>

\* Step 2, Throttle: acquire(now + timeout) either reserves a token that is
\* due by the deadline or fails at once.  Step 3, Build, follows a token
\* that is there already.
IpReadAcquire(i) ==
    LET l == lookups[i]
        m == Value(ipProv.DataSourceData)
        r == reserveN(Value(m.rateLimiter), now, l.provider.timeout) IN
    /\ l.pc = "acquire"
    /\ IF ~r.ok
          THEN /\ lookups' = [lookups EXCEPT ![i] =
                      [l EXCEPT !.pc = "done", !.errors = {"RateLimitTimeoutError"}]]
               /\ UNCHANGED ipProv
          ELSE /\ ipProv' = [ipProv EXCEPT !.DataSourceData =
                      Some([m EXCEPT !.rateLimiter = Some(r.lim)])]
               /\ lookups' = [lookups EXCEPT ![i] =
                      IF r.timeToAct > now
                         THEN [l EXCEPT !.pc = "granted", !.timeToAct = r.timeToAct]
                         ELSE [l EXCEPT !.pc = "send",
                                        !.request = buildRequest(l.provider)]]
    /\ UNCHANGED <<wordBits, now, p, limiters, cfgCalls, cfgErrors>>

\* The reserved token is due.  Step 3, Build.
IpReadWake(i) ==
    LET l == lookups[i] IN
    /\ l.pc = "granted"
    /\ now >= l.timeToAct
    /\ lookups' = [lookups EXCEPT ![i] =
          [l EXCEPT !.pc = "send", !.timeToAct = 0,
                    !.request = buildRequest(l.provider)]]
    /\ UNCHANGED <<wordBits, now, p, limiters, cfgCalls, cfgErrors, ipProv>>

\* Step 7, Normalize: the requested version labels the result, the booleans
\* are the family of the address, the id joins version, raw ip and source.
ipApplyResponse(l, respData, ip) ==
    LET version == IF IsNull(l.IPVersion) THEN "" ELSE Value(l.IPVersion)
        source == IF IsNull(l.SourceIP) THEN "" ELSE Value(l.SourceIP) IN
    [ID        |-> version \o "$" \o respData.IP \o "$" \o source,
     IP        |-> ip.text,
     IPVersion |-> IF IsNull(l.IPVersion) THEN ipVersion(ip) ELSE Value(l.IPVersion),
     IsIPv6    |-> Is6(ip),
     IsIPv4    |-> Is4(ip),
     ASNID     |-> respData.ASN,
     ASNOrg    |-> respData.ASNOrg,
     SourceIP  |-> source]

\* Steps 4 to 8 on what the client returned.
ipReadResponse(l, resp) ==
    LET respData == Decode(Value(resp.json))
        r == ParseIP(respData.IP)
        l1 == [l EXCEPT !.pc = "done", !.sentAt = 0] IN
    IF resp.kind = "error" THEN [l1 EXCEPT !.errors = {"TransportError"}]
    ELSE IF resp.status # 200 THEN [l1 EXCEPT !.errors = {"UpstreamStatusError"}]
    ELSE IF IsNull(resp.json) THEN [l1 EXCEPT !.errors = {"DecodeError"}]
    ELSE IF r.err THEN [l1 EXCEPT !.errors = {"ResponseIPError"}]
    ELSE [l1 EXCEPT !.state = Some(ipApplyResponse(l, respData, r.ip))]

IpReadRespond(i, resp) ==
    LET l == lookups[i] IN
    /\ l.pc = "inflight"
    /\ l.rev = "both"
    /\ clientTimedOut(l) => resp.kind = "error"
    /\ lookups' = [lookups EXCEPT ![i] = ipReadResponse(l, resp)]
    /\ UNCHANGED <<wordBits, now, p, limiters, cfgCalls, cfgErrors, ipProv>>

\* The data blocks of the model: each argument left out, or one of the two
\* families.
RequestSourceIPs == {Null, Some("::"), Some("0.0.0.0")}
RequestIPVersions == {Null, Some("v4"), Some("v6")}

\* The provider blocks lookups of data blocks run under.
RequestProviderData ==
    {d \in LookupProviderData :
        /\ IsNull(d.ProviderURL) /\ IsNull(d.RateLimitRate) /\ IsNull(d.RateLimitBurst)
        /\ d.Timeout \in {Null, Some("5ms")}}

\* Data blocks of the three data sources, from configuration to result.
NextRequest ==
    \/ \E data \in RequestProviderData : Configure(data, FALSE)
    \/ \E data \in RequestProviderData : IpConfigure(data, FALSE)
    \/ \E s \in RequestSourceIPs, v \in RequestIPVersions : ValidateAndRead(s, v)
    \/ \E s \in RequestSourceIPs, v \in RequestIPVersions :
          ValidateAndReadByVersion(s, v)
    \/ \E s \in RequestSourceIPs, v \in RequestIPVersions : IpRead(s, v)
    \/ \E i \in 1..Len(lookups) : IpReadAcquire(i)
    \/ \E i \in 1..Len(lookups) : IpReadWake(i)
    \/ \E i \in 1..Len(lookups), resp \in Responses : IpReadRespond(i, resp)
    \/ \E i \in 1..Len(lookups), resp \in Responses : ReadByVersionRespond(i, resp)
    \/ \E i \in 1..Len(lookups) : ReadAllow(i)
    \/ \E i \in 1..Len(lookups) : ReadWait(i)
    \/ \E i \in 1..Len(lookups) : ReadWake(i)
    \/ \E i \in 1..Len(lookups) : ReadWaitCtxDone(i)
    \/ \E i \in 1..Len(lookups), dialOk \in BOOLEAN : ReadSend(i, dialOk)
    \/ \E i \in 1..Len(lookups), resp \in Responses : ReadRespond(i, resp)
    \/ \E i \in 1..Len(lookups) : HostCancel(i)
    \/ \E t \in Instants : Advance(t)

SpecRequest == Init /\ [][NextRequest]_vars

-----------------------------------------------------------------------------
(* Claims *)

RateLimitError == "Error waiting for rate limit"

\* The lookups of the data source with source_ip that use limiter k and
\* have put a request on the wire.
SentThrough(k) ==
    {i \in 1..Len(lookups) :
        /\ lookups[i].rev = "source"
        /\ lookups[i].provider.rateLimiter = k
        /\ lookups[i].sent > 0}

\* C1: when the limiter's blocking acquire (Wait) fails during a lookup, the
\* lookup fails with the rate-limit error and sends no HTTP request.
\* Read records the error and goes on to client.Do: violated.
C1_RateLimitErrorSendsNothing ==
    \A i \in 1..Len(lookups) :
        RateLimitError \in lookups[i].errors => lookups[i].sent = 0

\* C2: whenever a lookup reports an error nothing is written to the state,
\* and a result is written only when no error was reported.
\* Violated by the lookup that goes on after Wait's error.
C2_ErrorMeansNoState ==
    \A i \in 1..Len(lookups) :
        lookups[i].errors # {} => IsNull(lookups[i].state)

\* C4: a configuration that failed is unusable: under it no outbound request
\* is made.  (Under this specification the one Configure call comes before
\* any request: Read on the provider as constructed dereferences a nil URL.)
\* Read never looks at p.configured: violated.
C4_FailedConfigurationSendsNothing ==
    (cfgCalls > 0 /\ cfgErrors # {}) =>
        \A i \in 1..Len(lookups) : lookups[i].sent = 0

\* The literals that are durations, that are URLs, and the bursts in range:
\* what the claim calls a configuration that parses.
IsDuration(s) == s \in {"5s", "500ms", "5ms", "0s"}
IsURL(s) == s \in {"https://ifconfig.co/", "http://u@lookup.test/api?k=1"}
BurstInRange(b) ==
    /\ b.hi > 0 \/ (b.hi = 0 /\ b.lo >= 1)
    /\ wordBits = 64 \/ b.hi = 0
ShouldConfigure(data) ==
    /\ IsNull(data.ProviderURL) \/ IsURL(Value(data.ProviderURL))
    /\ IsNull(data.Timeout) \/ IsDuration(Value(data.Timeout))
    /\ IsNull(data.RateLimitRate) \/ IsDuration(Value(data.RateLimitRate))
    /\ IsNull(data.RateLimitBurst) \/ BurstInRange(Value(data.RateLimitBurst))

\* C5: a Configure call succeeds (no error, the provider marked configured)
\* exactly when the URL parses, both durations parse and the burst is absent
\* or within 1..math.MaxInt; otherwise it ends with an error.  For both
\* providers, for every block the host can decode.
C5_ConfigureSucceedsIffValid ==
    [][\A data \in ProviderDataSet :
          /\ Configure(data, FALSE) =>
                /\ (cfgErrors' = {} /\ p'.configured) <=> ShouldConfigure(data)
                /\ ~ShouldConfigure(data) => cfgErrors' # {}
          /\ IpConfigure(data, FALSE) =>
                /\ (ipProv'.errors = {} /\ ipProv'.configured
                        /\ ~IsNull(ipProv'.DataSourceData)) <=> ShouldConfigure(data)
                /\ ~ShouldConfigure(data) => ipProv'.errors # {}]_vars

\* A burst of 0 or less was rejected and the provider is not configured.
C5_Witness ==
    /\ cfgCalls = 1
    /\ cfgErrors = {"Unable to use the rate_limit_burst"}
    /\ ~p.configured

\* C6: the requests sent through a limiter never outnumber the tokens it
\* has granted: its burst plus one per refill interval elapsed.
\* Violated: a lookup whose Wait failed sends its request all the same.
C6_RequestsWithinTokens ==
    \A k \in 1..Len(limiters) :
        (~limiters[k].inf /\ limiters[k].burst.hi = 0) =>
            Cardinality(SentThrough(k))
                <= limiters[k].burst.lo + (now \div limiters[k].interval)

\* The family of an address literal: "v4", "v6", or "none" for a text that
\* is no address.
LiteralFamily(s) ==
    CASE s \in {"0.0.0.0", "203.0.113.5"} -> "v4"
      [] s \in {"::", "2001:db8::1", "2001:DB8:0:0:0:0:0:1"} -> "v6"
      [] OTHER -> "none"

\* The ip field of a 200 response as Read gets it ("" when omitted).
ResponseIP(resp) == Decode(Value(resp.json)).IP

\* resp is a 200 response with a JSON body.
IsJsonResponse(resp) == resp.kind = "http" /\ resp.status = 200 /\ ~IsNull(resp.json)

\* C7: the ip_version of a result is the version the request carried when it
\* carried one, and otherwise the family of the address upstream returned.
\* (Only the data source of ip_address_data_source.go takes ip_version.)
C7_VersionHintWins ==
    [][\A i \in 1..Len(lookups), resp \in Responses :
          ((ReadByVersionRespond(i, resp) \/ ReadRespond(i, resp))
                /\ ~IsNull(lookups'[i].state)) =>
             LET hint == lookups[i].IPVersion
                 result == Value(lookups'[i].state) IN
             /\ ~IsNull(hint) => result.IPVersion = Value(hint)
             /\ (IsNull(hint) /\ LiteralFamily(ResponseIP(resp)) # "none") =>
                    result.IPVersion = LiteralFamily(ResponseIP(resp))]_vars

\* A result labelled with the requested v4 although upstream returned an
\* IPv6 address.
C7_Witness ==
    \E i \in 1..Len(lookups) :
        /\ lookups[i].rev = "version"
        /\ lookups[i].IPVersion = Some("v4")
        /\ ~IsNull(lookups[i].state)
        /\ Value(lookups[i].state).IP = "2001:db8::1"
        /\ Value(lookups[i].state).IPVersion = "v4"

C10_InvalidResponseIPFails ==
    [][\A i \in 1..Len(lookups), resp \in Responses :
          ((ReadByVersionRespond(i, resp) \/ ReadRespond(i, resp))
                /\ IsJsonResponse(resp)) =>
             /\ LiteralFamily(ResponseIP(resp)) = "none" =>
                    /\ "Error parsing the IP" \in lookups'[i].errors
                    /\ IsNull(lookups'[i].state)
             /\ ~IsNull(lookups'[i].state) =>
                    Value(lookups'[i].state).IPVersion # IPUnknown]_vars

\* The family a data block asks for with source_ip: "" without one.
RequestedSourceFamily(l) ==
    IF IsNull(l.SourceIP) \/ Value(l.SourceIP) = "" THEN ""
    ELSE LiteralFamily(Value(l.SourceIP))

\* The block of lookup l gives source_ip and ip_version, of different families.
FamiliesDisagree(l) ==
    /\ RequestedSourceFamily(l) \in {"v4", "v6"}
    /\ ~IsNull(l.IPVersion)
    /\ Value(l.IPVersion) \in {"v4", "v6"}
    /\ Value(l.IPVersion) # RequestedSourceFamily(l)

CanonicalText(s) == IF s = "2001:DB8:0:0:0:0:0:1" THEN "2001:db8::1" ELSE s

\* C11: for a 200 response with a valid ip and no requested version the
\* result is the response field by field: ip the canonical text of the
\* address, ip_version its family, is_ipv4 / is_ipv6 that family, asn_id
\* and asn_org the response's asn and asn_org, "" when upstream omits them.
\* Violated by the data source with ip_version, which copies the ip text
\* as upstream sent it.
C11_ResultMapsResponse ==
    [][\A i \in 1..Len(lookups), resp \in Responses :
          ((ReadByVersionRespond(i, resp) \/ ReadRespond(i, resp))
                /\ IsJsonResponse(resp)
                /\ LiteralFamily(ResponseIP(resp)) # "none"
                /\ IsNull(lookups[i].IPVersion)) =>
             LET body == Value(resp.json)
                 family == LiteralFamily(ResponseIP(resp))
                 result == Value(lookups'[i].state) IN
             /\ ~IsNull(lookups'[i].state)
             /\ result.IP = CanonicalText(Value(body.ip))
             /\ result.IPVersion = family
             /\ result.ASNID = (IF IsNull(body.asn) THEN "" ELSE Value(body.asn))
             /\ result.ASNOrg = (IF IsNull(body.asn_org) THEN ""
                                 ELSE Value(body.asn_org))
             /\ lookups[i].rev = "source" =>
                    /\ result.IsIPv4 <=> family = "v4"
                    /\ result.IsIPv6 <=> family = "v6"]_vars

\* C12: the id of a result is the requested version ("" without one), "$",
\* the ip text as upstream sent it, "$", and the source_ip literal ("" without
\* one), in that order.
\* Violated: the data source with source_ip writes source_ip, "$", ip.
C12_IdJoinsVersionIpSource ==
    [][\A i \in 1..Len(lookups), resp \in Responses :
          (ReadRespond(i, resp) /\ ~IsNull(lookups'[i].state)) =>
             LET version == IF IsNull(lookups[i].IPVersion) THEN ""
                            ELSE Value(lookups[i].IPVersion)
                 source == IF IsNull(lookups[i].SourceIP) THEN ""
                           ELSE Value(lookups[i].SourceIP) IN
             Value(lookups'[i].state).ID
                 = version \o "$" \o ResponseIP(resp) \o "$" \o source]_vars

\* The address upstream reports is of the family the connection was dialed
\* with: IPv6 on tcp6, IPv4 on tcp4, either on tcp.
ReportsPeerAddress(l, resp) ==
    /\ IsJsonResponse(resp)
    /\ l.network = "tcp6" => LiteralFamily(ResponseIP(resp)) = "v6"
    /\ l.network = "tcp4" => LiteralFamily(ResponseIP(resp)) = "v4"
    /\ l.network = "tcp" => LiteralFamily(ResponseIP(resp)) # "none"

C14_SourceIPKeptAsWritten ==
    [][/\ \A s \in SourceIPs :
             Read(s, FALSE) =>
                lookups'[Len(lookups')].SourceIP
                    = Some(IF IsNull(s) THEN "" ELSE Value(s))
       /\ \A i \in 1..Len(lookups) :
             /\ lookups'[i].SourceIP = lookups[i].SourceIP
             /\ \A resp \in Responses :
                   (ReadRespond(i, resp) /\ ~IsNull(lookups'[i].state)) =>
                      Value(lookups'[i].state).SourceIP
                          = Value(lookups[i].SourceIP)]_vars

\* Results for a source_ip that is not in canonical form, and for none.
C14_Witness ==
    \E i, j \in 1..Len(lookups) :
        /\ ~IsNull(lookups[i].state)
        /\ lookups[i].sourceIP.text = "2001:db8::1"
        /\ Value(lookups[i].state).SourceIP = "2001:DB8:0:0:0:0:0:1"
        /\ ~IsNull(lookups[j].state)
        /\ lookups[j].rev = "source"
        /\ Value(lookups[j].state).SourceIP = ""

\* What is in the bucket of a limiter at time t, in milliseconds of refill:
\* interval stands for one token, burst * interval for a full bucket.
FillAt(lim, t) ==
    LET elapsed == IF t > lim.last THEN t - lim.last ELSE 0
        owed == IF lim.debt > elapsed THEN lim.debt - elapsed ELSE 0 IN
    lim.burst.lo * lim.interval - owed

\* The time from t until the bucket holds a token.
UntilNextToken(lim, t) ==
    IF FillAt(lim, t) >= lim.interval THEN 0 ELSE lim.interval - FillAt(lim, t)

\* C15: on a limiter with a finite rate an acquire from a full bucket is
\* granted at once, and an acquire (Wait) whose deadline is earlier than the
\* next token fails with the rate-limit error and takes nothing; with burst
\* 1 and a refill of 500ms the acquire right after the first one, with its
\* deadline 5ms ahead, is such a one.  An acquire whose token is due by the
\* deadline is granted.
C15_AcquirePastDeadlineFails ==
    [][\A i \in 1..Len(lookups) :
          LET l == lookups[i]
              k == l.provider.rateLimiter
              lim == limiters[k] IN
          /\ (ReadAllow(i) /\ k # 0 /\ ~lim.inf /\ lim.burst.hi = 0
                  /\ FillAt(lim, now) = lim.burst.lo * lim.interval) =>
                FillAt(limiters'[k], now) = FillAt(lim, now) - lim.interval
          /\ (ReadWait(i) /\ ~lim.inf /\ lim.burst.hi = 0 /\ ~ctxDone(l)) =>
                IF now + UntilNextToken(lim, now) > l.deadline
                   THEN /\ RateLimitError \in lookups'[i].errors
                        /\ limiters' = limiters
                   ELSE /\ RateLimitError \notin lookups'[i].errors
                        /\ FillAt(limiters'[k], now) = FillAt(lim, now) - lim.interval
         ]_vars

\* Burst 1, refill 500ms, timeout 5ms: the bucket is empty after the first
\* acquire and the lookup's Wait has failed.
C15_Witness ==
    \E i \in 1..Len(lookups) :
        LET l == lookups[i] IN
        /\ l.provider.timeout = 5
        /\ l.provider.rateLimiter # 0
        /\ limiters[l.provider.rateLimiter].interval = 500
        /\ limiters[l.provider.rateLimiter].burst = I64(1)
        /\ FillAt(limiters[l.provider.rateLimiter], now) < 500
        /\ RateLimitError \in l.errors

StepOf(pc) ==
    CASE pc = "start"    -> 0
      [] pc = "allow"    -> 1
      [] pc = "wait"     -> 2
      [] pc = "sleep"    -> 3
      [] pc = "send"     -> 4
      [] pc = "inflight" -> 5
      [] OTHER           -> 6

\* C17: a lookup only moves forward: each step of Read is taken at most
\* once, a lookup that has ended stays as it is, and a lookup sends at most
\* one request, whatever failed.  (The host cancelling Read's context moves
\* nothing.)
\* Violated: Read takes each step once, but its client follows redirects
\* and sends the request again.
C17_LookupIsLinear ==
    [][\A i \in 1..Len(lookups) :
          /\ lookups'[i].sent >= lookups[i].sent
          /\ lookups'[i].sent <= 1
          /\ lookups'[i] # lookups[i] =>
                \/ StepOf(lookups'[i].pc) > StepOf(lookups[i].pc)
                \/ lookups'[i] = [lookups[i] EXCEPT !.cancelled = TRUE]]_vars

\* C18: the Allow() probe before Wait is for a log line only: it takes no
\* token, so the limiter is after the probe what it was before, and a
\* lookup takes one token in all.
\* Violated: Allow() takes a token whenever one is there, and Wait then
\* takes (or waits for) a second.
C18_ProbeTakesNoToken ==
    [][\A i \in 1..Len(lookups) : ReadAllow(i) => limiters' = limiters]_vars

\* The name main.go gives the tool.
ToolName == "terraform-provider-publicip"

\* C19: every request Read builds is a GET to the configured URL with
\* "json" joined to its path, scheme, user, host and query as configured,
\* with the header User-Agent "terraform-provider-publicip (<version>)".
\* Violated: nothing sets the provider's toolName, the header is " (dev)".
C19_RequestIsGetJsonWithUserAgent ==
    \A i \in 1..Len(lookups) :
        LET l == lookups[i]
            base == Value(l.provider.ipURL)
            url == Value(l.request.url) IN
        (l.rev \in {"source", "version"} /\ l.request # NoRequest) =>
            /\ l.request.method = "GET"
            /\ url.Scheme = base.Scheme
            /\ url.User = base.User
            /\ url.Host = base.Host
            /\ url.RawQuery = base.RawQuery
            /\ url.Path = (IF base.Path = "/" THEN "/json"
                           ELSE base.Path \o "/json")
            /\ l.request.userAgent = ToolName \o " (" \o l.provider.version \o ")"

\* C20: a source_ip that is not empty and is no address ends Read with the
\* "Invalid IP" error before anything else happens: the limiter is as it
\* was, no request is built, nothing is dialed or sent, and the lookup
\* stays ended.  An absent or empty source_ip is not parsed: it gives no
\* such error and leaves the lookup without a source address, on "tcp".
C20_InvalidSourceIPFailsFirst ==
    [][/\ \A s \in SourceIPs :
             Read(s, FALSE) =>
                LET l == lookups'[Len(lookups')]
                    text == IF IsNull(s) THEN "" ELSE Value(s) IN
                /\ (text # "" /\ LiteralFamily(text) = "none") =>
                      /\ l.pc = "done"
                      /\ l.errors = {"Invalid IP"}
                      /\ limiters' = limiters
                      /\ l.request = NoRequest
                      /\ ~l.dialed
                      /\ l.sent = 0
                      /\ l.state = NoState
                /\ text = "" =>
                      /\ "Invalid IP" \notin l.errors
                      /\ IsZero(l.sourceIP)
                      /\ l.network = "tcp"
                      /\ dialer(l) = [network |-> "tcp", LocalAddr |-> Null]
                /\ LiteralFamily(text) # "none" => "Invalid IP" \notin l.errors
       /\ \A i \in 1..Len(lookups) :
             lookups[i].pc = "done" => lookups'[i] = lookups[i]]_vars

\* The lookup with source_ip "not-an-ip" has ended with the error, next to
\* one without source_ip that was sent.
C20_Witness ==
    \E i, j \in 1..Len(lookups) :
        /\ lookups[i].SourceIP = Some("not-an-ip")
        /\ lookups[i].errors = {"Invalid IP"}
        /\ lookups[i].pc = "done"
        /\ lookups[j].rev = "source"
        /\ lookups[j].SourceIP = Some("")
        /\ lookups[j].sent = 1

\* Lookup i has ended, with a result or with an error.
Ended(i) ==
    /\ i <= Len(lookups)
    /\ lookups[i].pc = "done"
    /\ lookups[i].state # NoState \/ lookups[i].errors # {}

\* C21: under every accepted configuration, a timeout of "0s" included,
\* every lookup that has started ends, with a result or with an error.
\* Violated: with timeout "0s" the client has no Timeout, and a lookup
\* whose request is out waits for upstream without end.
C21_EveryLookupEnds ==
    \A i \in 1..MaxLookups : (i <= Len(lookups)) ~> Ended(i)

\* What Configure set up in a limiter: its rate and its burst.
LimiterSettings(lim) == [inf |-> lim.inf, interval |-> lim.interval, burst |-> lim.burst]

\* C22: a step of a lookup, whether the lookup succeeds or fails, leaves the
\* provider as Configure made it (URL, timeout, tool name, version), leaves
\* the provider each lookup was handed, and leaves the rate and the burst
\* of every limiter; of what lookups share, only the tokens of a limiter
\* change.
C22_LookupsLeaveTheProvider ==
    [][lookups' # lookups =>
          /\ p' = p
          /\ ipProv' = ipProv
          /\ cfgCalls' = cfgCalls
          /\ cfgErrors' = cfgErrors
          /\ Len(limiters') = Len(limiters)
          /\ \A k \in 1..Len(limiters) :
                LimiterSettings(limiters'[k]) = LimiterSettings(limiters[k])
          /\ \A i \in 1..Len(lookups) :
                lookups'[i].provider = lookups[i].provider]_vars

\* Two lookups have ended, one with a result and one with an error, the
\* limiter they share has given out tokens, and the provider is as Configure
\* left it.
C22_Witness ==
    \E i, j \in 1..Len(lookups) :
        /\ lookups[i].pc = "done" /\ lookups[i].state # NoState
        /\ lookups[j].pc = "done" /\ lookups[j].errors # {}
        /\ lookups[i].provider.rateLimiter # 0
        /\ lookups[j].provider.rateLimiter = lookups[i].provider.rateLimiter
        /\ limiters[lookups[i].provider.rateLimiter].debt > 0
        /\ LimiterSettings(limiters[lookups[i].provider.rateLimiter])
              = [inf |-> FALSE, interval |-> 500, burst |-> I64(1)]
        /\ p = lookups[i].provider
        /\ p.configured

=============================================================================
